---------------------------- MODULE Spec2Model ----------------------------
(***************************************************************************)
(* bangumi-tool: the resumable, disk-memoized fetch-and-aggregate pipeline *)
(* (src/main.rs), its file cache (src/cache.rs), the remote client         *)
(* (src/client.rs) and the record derivation (src/main.rs, src/models.rs). *)
(*                                                                         *)
(* Encodings.                                                              *)
(*   Option<T>      [some |-> FALSE]  or  [some |-> TRUE, val |-> v]       *)
(*   cache key      the key string split at '/': a sequence of segments;   *)
(*                  a segment is the sequence of its '.'-separated parts   *)
(*                  ("1.5" is <<"1","5">>, "30" is <<"30">>)               *)
(*   file content   EmptyFile (zero bytes), Json(ty, v) (the serde_json    *)
(*                  text of v, a value of type ty), PartialFile (a proper, *)
(*                  non-empty prefix of such a text: never valid JSON      *)
(*                  because every cached type is an object or an array)    *)
(*   disk           function from the paths of the existing files to       *)
(*                  their content                                          *)
(*   f64 sort       carried in halves: sort2 = 2 * sort                    *)
(***************************************************************************)
EXTENDS Integers, Sequences, FiniteSets, TLC

(* ------------------------------ bounds -------------------------------- *)

\* Largest collection list on which detail mode is explored.
MaxItems == 2

\* Largest number of collection pages explored (simple mode, lists of about
\* (MaxPages - 1) * limit items).
MaxPages == 3

\* u64 is scaled down to WordBits bits in the model.
WordBits == 8

(* ------------------------- program constants -------------------------- *)

\* main.rs:70  let limit = 30u64;
CollLimit == 30

\* main.rs:156  let limit = 100u64;
EpLimit == 100

\* client.rs: const REQUEST_INTERVAL = Duration::from_secs(5)
REQUEST_INTERVAL == 5

(* ------------------------------ helpers ------------------------------- *)

None == [some |-> FALSE]

Some(v) == [some |-> TRUE, val |-> v]

Min(a, b) == IF a < b THEN a ELSE b

Max(a, b) == IF a < b THEN b ELSE a

IsPrefix(s, t) == Len(s) <= Len(t) /\ SubSeq(t, 1, Len(s)) = s

CeilDiv(a, b) == (a + b - 1) \div b

(* --------------------------- cache (cache.rs) -------------------------- *)

EmptyFile == [kind |-> "empty"]

PartialFile == [kind |-> "partial"]

\* serde_json::to_string(value) for a value of Rust type ty
Json(ty, v) == [kind |-> "json", ty |-> ty, val |-> v]

\* serde_json::from_str::<ty>(data): Ok only for a complete text of that type
FromStr(ty, data) ==
    IF data.kind = "json" /\ data.ty = ty THEN Some(data.val) ELSE None

NoFiles == [p \in {} |-> EmptyFile]

\* PathBuf::set_extension("json") on the last component: an existing
\* extension (the text after the last '.') is replaced, else one is added.
SetExtension(comp) ==
    (IF Len(comp) > 1 THEN SubSeq(comp, 1, Len(comp) - 1) ELSE comp) \o <<"json">>

\* Cache::path: one path component per '/'-separated part, then set_extension.
Path(key) ==
    SubSeq(key, 1, Len(key) - 1) \o <<SetExtension(key[Len(key)])>>

\* A test that takes a zero-length file for a missing one.
HasContent(d, key) == Path(key) \in DOMAIN d /\ d[Path(key)].kind # "empty"

\* Cache::has
Has(d, key) == Path(key) \in DOMAIN d

\* Cache::get::<ty>
Get(d, ty, key) ==
    IF Path(key) \notin DOMAIN d THEN None
    ELSE IF d[Path(key)].kind = "empty" THEN None
    ELSE FromStr(ty, d[Path(key)])

\* The file at Path(key) replaced by content c (created when missing).
WithFile(d, key, c) ==
    [p \in DOMAIN d \cup {Path(key)} |-> IF p = Path(key) THEN c ELSE d[p]]

\* Cache::set: std::fs::write(path, serde_json::to_string(value)), run to its end
Set(d, ty, key, v) == WithFile(d, key, Json(ty, v))

\* Cache::set_empty: std::fs::write(path, "")
SetEmpty(d, key) == WithFile(d, key, EmptyFile)

\* A clear that leaves every file in place.
ClearNothing(d) == d

\* Cache::clear: remove_dir_all(dir)
Clear(d) == NoFiles


(* ------------------------ results (error.rs) --------------------------- *)

Ok(v) == [ok |-> TRUE, val |-> v]

\* AppError::Api { status, .. } / AppError::Http / AppError::Json
AppError(kind, status) == [kind |-> kind, status |-> status]

Err(e) == [ok |-> FALSE, err |-> e]

(* ------------------- the remote service (models.rs) -------------------- *)

EpKinds == <<"few", "none", "many">>

ProgKinds == <<"some", "notfound", "null", "emptybody">>

Rotations == 0 .. 11

\* The lists the remote can hold: short ones (explored in both modes) and
\* ones around the page boundaries.
Totals ==
    (0 .. MaxItems)
    \cup {p * CollLimit + d : p \in 1 .. (MaxPages - 1), d \in {-1, 0, 1}}

\* How the remote's collection pages can depart from full pages that all
\* report the same total: every page one item short, or the pages after the
\* first reporting a larger or a zero total.
Drifts == {"none", "short", "grown", "shrunk"}

\* The remote data the pipeline runs against: pages as the service documents them.
Worlds == [total : Totals, rot : Rotations, drift : {"none"}]

\* The remote data fetch_collections alone runs against.
CursorWorlds == [total : Totals, rot : {0}, drift : Drifts]

\* models.rs User
Me == [id |-> 7, username |-> "u"]

SubjectId(j) == 100 + j

\* models.rs Collection: the j-th item of the user's list (1-based)
Collection(j) ==
    [subject_id |-> SubjectId(j), ep_status |-> j % 3, rate |-> j % 2]

EpKindOf(w, sid) == EpKinds[((sid + w.rot) % 3) + 1]

ProgKindOf(w, sid) == ProgKinds[((sid + w.rot) % 4) + 1]

\* models.rs SubjectDetail
SubjectDetailOf(w, sid) ==
    [id |-> sid, eps |-> (sid + w.rot) % 3, total_episodes |-> (sid + w.rot) % 2]

\* models.rs Episode: id, episode_type (0 = main), sort (in halves)
Episode(id, ty, sort2) == [id |-> id, episode_type |-> ty, sort2 |-> sort2]

EpisodesOf(w, sid) ==
    CASE EpKindOf(w, sid) = "none" -> << >>
      [] EpKindOf(w, sid) = "few" ->
            << Episode(10 * sid + 1, 0, 2), Episode(10 * sid + 2, 0, 4),
               Episode(10 * sid + 3, 1, 2), Episode(10 * sid + 4, 0, 5) >>
      [] OTHER -> [k \in 1 .. (EpLimit + 1) |-> Episode(1000 * sid + k, 0, 2 * k)]

\* models.rs UserProgress / EpisodeProgress / ProgressStatus (2 = watched)
UserProgressOf(w, sid) ==
    [subject_id |-> sid,
     eps |-> << [id |-> 10 * sid + 1, status |-> 2],
                [id |-> 10 * sid + 2, status |-> 1],
                [id |-> 10 * sid + 3, status |-> 2],
                [id |-> 10 * sid + 4, status |-> 2],
                [id |-> 1000 * sid + 1, status |-> 2],
                [id |-> 1000 * sid + 2, status |-> 2],
                [id |-> 1000 * sid + 4, status |-> 2],
                [id |-> 5, status |-> 2] >>]

\* An answer of the remote: sent = FALSE is a transport failure.
Response(status, body) == [sent |-> TRUE, status |-> status, body |-> body]

Transport == [sent |-> FALSE, status |-> 0, body |-> EmptyFile]

NullBody == [kind |-> "null"]

\* Answers that no endpoint wants: non-2xx statuses, a transport failure and a
\* 200 whose body is cut short.
Faults ==
    { Response(404, EmptyFile), Response(500, EmptyFile), Transport,
      Response(200, PartialFile) }

\* GET /v0/me
MeAnswer == Response(200, Json("User", Me))

\* GET /v0/users/{username}/collections?limit&offset
\* (models.rs PagedCollection; full pages except the last)
CollectionsAnswer(w, limit, offset) ==
    LET full == Max(0, Min(limit, w.total - offset))
        held == IF w.drift = "short" THEN Max(0, full - 1) ELSE full
        told == IF offset = 0 THEN w.total
                ELSE CASE w.drift = "grown" -> w.total + limit
                       [] w.drift = "shrunk" -> 0
                       [] OTHER -> w.total
    IN  Response(200, Json("PagedCollection",
            [total |-> told, limit |-> limit, offset |-> offset,
             data |-> [k \in 1 .. held |-> Collection(offset + k)]]))

\* GET /v0/subjects/{id}
SubjectAnswer(w, sid) == Response(200, Json("SubjectDetail", SubjectDetailOf(w, sid)))

\* GET /v0/episodes?subject_id&limit&offset   (models.rs PagedEpisodes)
EpisodesAnswer(w, sid, limit, offset) ==
    LET all == EpisodesOf(w, sid)
    IN  Response(200, Json("PagedEpisodes",
            [total |-> Len(all), limit |-> limit, offset |-> offset,
             data |-> SubSeq(all, offset + 1, Min(offset + limit, Len(all)))]))

\* GET /user/{uid}/progress?subject_id
ProgressAnswer(w, sid) ==
    CASE ProgKindOf(w, sid) = "notfound" -> Response(404, EmptyFile)
      [] ProgKindOf(w, sid) = "null" -> Response(200, NullBody)
      [] ProgKindOf(w, sid) = "emptybody" -> Response(200, EmptyFile)
      [] OTHER -> Response(200, Json("UserProgress", UserProgressOf(w, sid)))

(* --------------------------- client (client.rs) ------------------------ *)

\* BangumiClient::request: Ok(resp) on a 2xx status, AppError::Api otherwise;
\* a send() failure is AppError::Http.
Request(r) ==
    IF ~r.sent THEN Err(AppError("Http", 0))
    ELSE IF r.status >= 200 /\ r.status <= 299 THEN Ok(r)
    ELSE Err(AppError("Api", r.status))

\* resp.json::<ty>()
JsonOf(ty, r) ==
    IF FromStr(ty, r.body).some THEN Ok(FromStr(ty, r.body).val)
    ELSE Err(AppError("Http", 0))

\* get_me / get_collections / get_subject / get_episodes
\* after their request has been answered by r
GetJson(ty, r) == IF Request(r).ok THEN JsonOf(ty, Request(r).val) ELSE Request(r)

\* get_progress taking every API error, not only 404, for "no progress".
GetProgressAnyApiError(r) ==
    LET q == Request(r)
    IN  IF ~q.ok
        THEN IF q.err.kind = "Api" THEN Ok(None) ELSE q
        ELSE IF r.body.kind = "null" \/ r.body.kind = "empty" THEN Ok(None)
        ELSE IF FromStr("UserProgress", r.body).some
             THEN Ok(Some(FromStr("UserProgress", r.body).val))
             ELSE Err(AppError("Json", 0))

\* BangumiClient::get_progress after its request has been answered by r
GetProgress(r) ==
    LET q == Request(r)
    IN  IF ~q.ok
        THEN IF q.err.kind = "Api" /\ q.err.status = 404 THEN Ok(None) ELSE q
        ELSE IF r.body.kind = "null" \/ r.body.kind = "empty" THEN Ok(None)
        ELSE IF FromStr("UserProgress", r.body).some
             THEN Ok(Some(FromStr("UserProgress", r.body).val))
             ELSE Err(AppError("Json", 0))

(* ------------------ record derivation (models.rs, main.rs) ------------- *)

\* The largest u64 (scaled).
U64Max == 2 ^ WordBits - 1

\* x + 1 on u64 in a build without overflow checks
WrappingInc(x) == (x + 1) % (U64Max + 1)

RECURSIVE Insert(_, _)
Insert(x, s) ==
    IF s = << >> THEN <<x>>
    ELSE IF x <= Head(s) THEN <<x>> \o s
    ELSE <<Head(s)>> \o Insert(x, Tail(s))

\* The list left in the order it came in.
Unsorted(s) == s

\* sorted.sort_unstable()
RECURSIVE Sort(_)
Sort(s) == IF s = << >> THEN << >> ELSE Insert(Head(s), Sort(Tail(s)))

\* The repeats left in the list.
Undeduped(s) == s

\* sorted.dedup(): consecutive repeats removed
RECURSIVE Dedup(_)
Dedup(s) ==
    IF Len(s) <= 1 THEN s
    ELSE IF s[1] = s[2] THEN Dedup(Tail(s))
    ELSE <<s[1]>> \o Dedup(Tail(s))

\* A run written by its first value alone.
PartStartOnly(start, end) == ToString(start)

\* start.to_string() when start = end, format!("{}-{}", start, end) otherwise
Part(start, end) ==
    IF start = end THEN ToString(start)
    ELSE ToString(start) \o "-" \o ToString(end)

\* parts.join(",")
RECURSIVE Join(_)
Join(parts) ==
    IF parts = << >> THEN ""
    ELSE IF Len(parts) = 1 THEN parts[1]
    ELSE parts[1] \o "," \o Join(Tail(parts))


\* The for loop of run_length_encode from position k on, and the final push.
RECURSIVE RleLoop(_, _, _, _, _)
RleLoop(sorted, k, start, end, parts) ==
    IF k > Len(sorted) THEN Append(parts, Part(start, end))
    ELSE IF sorted[k] = WrappingInc(end)
         THEN RleLoop(sorted, k + 1, start, sorted[k], parts)
         ELSE RleLoop(sorted, k + 1, sorted[k], sorted[k],
                      Append(parts, Part(start, end)))

\* The loop of run_length_encode evaluates end + 1 with end at the largest
\* value of the type: a panic in a build with overflow checks, a wrap to 0 in
\* one without.
RECURSIVE AddOverflows(_, _, _)
AddOverflows(sorted, k, end) ==
    IF k > Len(sorted) THEN FALSE
    ELSE IF end = U64Max THEN TRUE
    ELSE AddOverflows(sorted, k + 1, sorted[k])

\* A call of run_length_encode(eps) overflows.
Overflows(eps) ==
    /\ eps # << >>
    /\ LET sorted == Dedup(Sort(eps))
       IN  AddOverflows(sorted, 2, sorted[1])

\* models.rs run_length_encode
run_length_encode(eps) ==
    IF eps = << >> THEN ""
    ELSE LET sorted == Dedup(Sort(eps))
         IN  Join(RleLoop(sorted, 2, sorted[1], sorted[1], << >>))

\* a / b * 100 to the nearest integer, a tie going away from zero.
PercentHalfUp(a, b) == (200 * a + b) \div (2 * b)

\* format!("{:.0}%", a as f64 / b as f64 * 100.0): nearest integer, ties to even
Percent(a, b) ==
    LET q == (100 * a) \div b
        r == (100 * a) % b
    IN  IF 2 * r < b THEN q
        ELSE IF 2 * r > b THEN q + 1
        ELSE IF q % 2 = 0 THEN q ELSE q + 1

\* main.rs build_detail_record
\* The watched count taken from the progress entries instead of the main episodes.
BuildCountingProgress(col, detail, all_episodes, progress) ==
    LET total_eps == Max(detail.total_episodes, detail.eps)
        IsMain(e) == e.episode_type = 0
        main_eps == SelectSeq(all_episodes, IsMain)
        main_ep_count == Len(main_eps)
        IsWatched(ep) == ep.status = 2
        watched == IF progress.some THEN SelectSeq(progress.val.eps, IsWatched) ELSE << >>
        watched_sort_nums == [k \in 1 .. Len(watched) |-> watched[k].id]
        watched_count == Len(watched_sort_nums)
    IN  [url |-> col.subject_id,
         completeness |-> ToString(watched_count) \o "/" \o ToString(main_ep_count),
         completeness_pct |->
            IF main_ep_count > 0
            THEN ToString(Percent(watched_count, main_ep_count)) \o "%"
            ELSE IF total_eps > 0
            THEN ToString(Percent(col.ep_status, total_eps)) \o "%"
            ELSE "N/A",
         watched_eps |-> run_length_encode(watched_sort_nums),
         rating |-> col.rate]

build_detail_record(col, detail, all_episodes, progress) ==
    LET total_eps == Max(detail.total_episodes, detail.eps)
        IsMain(e) == e.episode_type = 0
        main_eps == SelectSeq(all_episodes, IsMain)
        main_ep_count == Len(main_eps)
        IsWatched(ep) == ep.status = 2
        watched_ep_ids ==
            IF progress.some
            THEN LET w == SelectSeq(progress.val.eps, IsWatched)
                 IN  {w[k].id : k \in 1 .. Len(w)}
            ELSE {}
        IsSeen(e) == e.id \in watched_ep_ids
        seen == SelectSeq(main_eps, IsSeen)
        watched_sort_nums == [k \in 1 .. Len(seen) |-> seen[k].sort2 \div 2]
        watched_count == Len(watched_sort_nums)
    IN  [url |-> col.subject_id,
         completeness |-> ToString(watched_count) \o "/" \o ToString(main_ep_count),
         completeness_pct |->
            IF main_ep_count > 0
            THEN ToString(Percent(watched_count, main_ep_count)) \o "%"
            ELSE IF total_eps > 0
            THEN ToString(Percent(col.ep_status, total_eps)) \o "%"
            ELSE "N/A",
         watched_eps |-> run_length_encode(watched_sort_nums),
         rating |-> col.rate]

\* main.rs build_simple_record
build_simple_record(col) == [url |-> col.subject_id, rating |-> col.rate]

(* ------------------------- cache keys (main.rs) ------------------------ *)

\* format!("{}/collections/{}", uid, offset)
CollKey(uid, off) == << <<ToString(uid)>>, <<"collections">>, <<ToString(off)>> >>

\* format!("{}/subjects/{}", uid, subject_id)
SubjectKey(uid, sid) == << <<ToString(uid)>>, <<"subjects">>, <<ToString(sid)>> >>

\* format!("{}/episodes/{}", uid, subject_id)
EpisodesKey(uid, sid) == << <<ToString(uid)>>, <<"episodes">>, <<ToString(sid)>> >>

\* format!("{}/progress/{}", uid, subject_id)
ProgressKey(uid, sid) == << <<ToString(uid)>>, <<"progress">>, <<ToString(sid)>> >>

\* format!("{}/done_records", uid)
DoneKey(uid) == << <<ToString(uid)>>, <<"done_records">> >>

(* ------------------------------- state -------------------------------- *)

VARIABLES
    world,          \* what the remote holds (fixed during a behaviour)
    disk,           \* the files under .bgm_cache
    pc,             \* where main is: "idle", ..., "done", "failed", "crashed"
    args,           \* cli.rs Args: no_cache, detail
    me,             \* main: the User returned by get_me
    collections,    \* fetch_collections: collections
    offset,         \* fetch_collections: offset
    total,          \* fetch_collections: total
    page,           \* fetch_collections: the page just fetched
    records,        \* fetch_detail_records: records
    start_index,    \* fetch_detail_records: start_index
    i,              \* fetch_detail_records: the loop index (0-based)
    detail,         \* fetch_detail_records: detail of item i
    all_episodes,   \* fetch_all_episodes: all_episodes
    ep_offset,      \* fetch_all_episodes: offset
    progress,       \* fetch_detail_records: progress of item i
    wkey,           \* std::fs::write in progress: the key
    wdata,          \* std::fs::write in progress: the data
    wret,           \* std::fs::write in progress: where main goes on
    out,            \* the records handed to export
    calls,          \* remote requests sent by this run, per endpoint
    resp,           \* the last answer of the remote in this run
    err,            \* the error main returned, and where it arose
    cold,           \* history: the run started with no file in the cache
    warm,           \* history: the previous run completed, same mode, no clear
    prevOut,        \* history: the records of that previous run
    cps,            \* history: every list fully written to done_records since the last clear
    torn,           \* history: the files a killed write left incomplete
    last,           \* history of the cache-only specification: last operation per key
    pure            \* the pure-function specifications: arguments and results

mem == << collections, offset, total, page, records, start_index, i, detail,
          all_episodes, ep_offset, progress, wkey, wdata, wret >>

hist == << cold, warm, prevOut >>

vars == << world, disk, pc, args, me, mem, out, calls, resp, err, hist, cps, torn, last, pure >>

\* No request yet; log is what the client has done so far, in order.
NoCalls ==
    [me |-> 0, page |-> 0, subject |-> 0, episodes |-> 0, progress |-> 0, log |-> << >>]

\* BangumiClient::request for endpoint f, from send to the response
Bump(c, f) ==
    [c EXCEPT ![f] = @ + 1, !.log = Append(@, [ev |-> "request", to |-> f, secs |-> 0])]

\* A client that never sleeps.
NoRateLimit(c) == c

\* BangumiClient::rate_limit: sleep(REQUEST_INTERVAL).await
rate_limit(c) ==
    [c EXCEPT !.log = Append(@, [ev |-> "delay", to |-> "", secs |-> REQUEST_INTERVAL])]

TotalCalls(c) == c.me + c.page + c.subject + c.episodes + c.progress

\* The keys of the cache-only specification: keys of the shapes main.rs
\* builds, and two keys whose last segment holds a '.'.
CacheKeys ==
    { << <<"7">>, <<"subjects">>, <<"101">> >>,
      << <<"7">>, <<"done_records">> >>,
      << <<"7">>, <<"notes">>, <<"1", "5">> >>,
      << <<"7">>, <<"notes">>, <<"1", "7">> >> }

\* The values the cache-only specification stores, with their Rust types.
CacheValues ==
    { [ty |-> "SubjectDetail", val |-> [id |-> 101, eps |-> 1, total_episodes |-> 1]],
      [ty |-> "SubjectDetail", val |-> [id |-> 101, eps |-> 0, total_episodes |-> 0]],
      [ty |-> "Vec<ExportRecord>", val |-> << >>] }

CacheTypes == {v.ty : v \in CacheValues}

\* No operation yet on any key, and the latest operation was not clear().
NoOps == [op |-> [k \in CacheKeys |-> [kind |-> "none"]], wiped |-> {}]

NoUser == [id |-> 0, username |-> ""]

NoResponse == [sent |-> FALSE, status |-> -1, body |-> EmptyFile]

Running ==
    { "get_me", "coll_first", "coll_first_use", "coll_loop", "coll_next_use",
      "simple", "detail_load", "subject", "episodes", "ep_page", "progress",
      "build", "loop_next", "export", "write_open", "write_data" }

Stopped == { "idle", "done", "failed", "crashed" }

\* The values of main's locals before they are assigned.
MemInit ==
    /\ collections' = << >>
    /\ offset' = 0
    /\ total' = 0
    /\ page' = None
    /\ records' = << >>
    /\ start_index' = 0
    /\ i' = 0
    /\ detail' = None
    /\ all_episodes' = << >>
    /\ ep_offset' = 0
    /\ progress' = None
    /\ wkey' = << >>
    /\ wdata' = EmptyFile
    /\ wret' = ""

\* The state before the first run, the remote left open.
Idle ==
    /\ disk = NoFiles
    /\ pc = "idle"
    /\ args = [no_cache |-> FALSE, detail |-> FALSE]
    /\ me = NoUser
    /\ collections = << >>
    /\ offset = 0
    /\ total = 0
    /\ page = None
    /\ records = << >>
    /\ start_index = 0
    /\ i = 0
    /\ detail = None
    /\ all_episodes = << >>
    /\ ep_offset = 0
    /\ progress = None
    /\ wkey = << >>
    /\ wdata = EmptyFile
    /\ wret = ""
    /\ out = << >>
    /\ calls = NoCalls
    /\ resp = NoResponse
    /\ err = None
    /\ cold = TRUE
    /\ warm = FALSE
    /\ prevOut = << >>
    /\ cps = {}
    /\ torn = {}
    /\ last = NoOps

\* No pure function is under check.
NoPure == [f |-> "none"]

Init ==
    /\ world \in Worlds
    /\ Idle
    /\ pure = NoPure

(* ------------------------------ main.rs -------------------------------- *)

\* An Err(e) reaching main through `?`: the run ends.
Fail(e, at) ==
    /\ pc' = "failed"
    /\ err' = Some([kind |-> e.kind, status |-> e.status, at |-> at])

\* cache.set / cache.set_empty reaching std::fs::write(path, data)
BeginWrite(key, data, ret) ==
    /\ wkey' = key
    /\ wdata' = data
    /\ wret' = ret
    /\ pc' = "write_open"

\* Option::unwrap_or_default on a Vec
UnwrapOrDefault(o) == IF o.some THEN o.val ELSE << >>

\* main, lines 385-395: a new process; Cache::new, and clear() under --no-cache
StartRun(nc, dt) ==
    /\ pc \in Stopped
    /\ dt => world.total <= MaxItems
    /\ args' = [no_cache |-> nc, detail |-> dt]
    /\ disk' = IF nc THEN Clear(disk) ELSE disk
    /\ pc' = "get_me"
    /\ me' = NoUser
    /\ MemInit
    /\ out' = << >>
    /\ calls' = NoCalls
    /\ resp' = NoResponse
    /\ err' = None
    /\ cold' = (DOMAIN disk' = {})
    /\ warm' = (pc = "done" /\ args.detail = dt /\ ~nc)
    /\ prevOut' = IF warm' THEN out ELSE << >>
    /\ cps' = IF nc THEN {} ELSE cps
    /\ torn' = IF nc THEN {} ELSE torn
    /\ UNCHANGED << world, last, pure >>

\* main, line 397: client.get_me().await?
GetMe ==
    /\ pc = "get_me"
    /\ \E r \in {MeAnswer} \cup Faults :
          /\ resp' = r
          /\ calls' = Bump(calls, "me")
          /\ IF GetJson("User", r).ok
             THEN me' = GetJson("User", r).val /\ pc' = "coll_first" /\ err' = err
             ELSE me' = me /\ Fail(GetJson("User", r).err, "get_me")
    /\ UNCHANGED << world, disk, args, mem, out, hist, cps, torn, last, pure >>

\* A lookup that never finds the page.
PageLookupNever(d, key) == None

\* fetch_collections, lines 82 and 108: cache.get(&cache_key)
PageLookup(d, key) == Get(d, "PagedCollection", key)

\* fetch_collections, lines 80-92: the first page, from the cache or the remote
CollFirst ==
    /\ pc = "coll_first"
    /\ LET key == CollKey(me.id, offset)
           hit == PageLookup(disk, key)
       IN  IF hit.some
           THEN /\ total' = hit.val.total
                /\ collections' = collections \o hit.val.data
                /\ offset' = offset + CollLimit
                /\ pc' = "coll_loop"
                /\ UNCHANGED << page, wkey, wdata, wret, calls, resp, err >>
           ELSE \E r \in {CollectionsAnswer(world, CollLimit, offset)} \cup Faults :
                /\ resp' = r
                /\ calls' = Bump(rate_limit(calls), "page")
                /\ IF GetJson("PagedCollection", r).ok
                   THEN /\ page' = Some(GetJson("PagedCollection", r).val)
                        /\ BeginWrite(key, Json("PagedCollection", page'.val), "coll_first_use")
                        /\ err' = err
                   ELSE /\ Fail(GetJson("PagedCollection", r).err, "coll_first")
                        /\ UNCHANGED << page, wkey, wdata, wret >>
                /\ UNCHANGED << total, collections, offset >>
    /\ UNCHANGED << world, disk, args, me, records, start_index, i, detail,
                    all_episodes, ep_offset, progress, out, hist, cps, torn, last, pure >>

\* fetch_collections, lines 90-92, after the first page was stored
CollFirstUse ==
    /\ pc = "coll_first_use"
    /\ total' = page.val.total
    /\ collections' = collections \o page.val.data
    /\ offset' = offset + CollLimit
    /\ page' = None
    /\ pc' = "coll_loop"
    /\ UNCHANGED << world, disk, args, me, records, start_index, i, detail,
                    all_episodes, ep_offset, progress, wkey, wdata, wret, out,
                    calls, resp, err, hist, cps, torn, last, pure >>

\* The loop condition with <= for <.
LoopCondLe(off, tot) == off <= tot

\* fetch_collections, line 106: while offset < total
LoopCond(off, tot) == off < tot

\* fetch_collections, lines 106-119: one turn of the loop
CollNext ==
    /\ pc = "coll_loop"
    /\ LoopCond(offset, total)
    /\ LET key == CollKey(me.id, offset)
           hit == PageLookup(disk, key)
       IN  IF hit.some
           THEN /\ collections' = collections \o hit.val.data
                /\ offset' = offset + CollLimit
                /\ UNCHANGED << pc, page, wkey, wdata, wret, calls, resp, err >>
           ELSE \E r \in {CollectionsAnswer(world, CollLimit, offset)} \cup Faults :
                /\ resp' = r
                /\ calls' = Bump(rate_limit(calls), "page")
                /\ IF GetJson("PagedCollection", r).ok
                   THEN /\ page' = Some(GetJson("PagedCollection", r).val)
                        /\ BeginWrite(key, Json("PagedCollection", page'.val), "coll_next_use")
                        /\ err' = err
                   ELSE /\ Fail(GetJson("PagedCollection", r).err, "coll_loop")
                        /\ UNCHANGED << page, wkey, wdata, wret >>
                /\ UNCHANGED << collections, offset >>
    /\ UNCHANGED << world, disk, args, me, total, records, start_index, i, detail,
                    all_episodes, ep_offset, progress, out, hist, cps, torn, last, pure >>

\* The cursor moves by the number of items the page held.
CollNextUseByItems ==
    /\ pc = "coll_next_use"
    /\ collections' = collections \o page.val.data
    /\ offset' = offset + Len(page.val.data)
    /\ page' = None
    /\ pc' = "coll_loop"
    /\ UNCHANGED << world, disk, args, me, total, records, start_index, i, detail,
                    all_episodes, ep_offset, progress, wkey, wdata, wret, out,
                    calls, resp, err, hist, cps, torn, last, pure >>

\* fetch_collections, lines 116-118, after the page was stored
CollNextUse ==
    /\ pc = "coll_next_use"
    /\ collections' = collections \o page.val.data
    /\ offset' = offset + CollLimit
    /\ page' = None
    /\ pc' = "coll_loop"
    /\ UNCHANGED << world, disk, args, me, total, records, start_index, i, detail,
                    all_episodes, ep_offset, progress, wkey, wdata, wret, out,
                    calls, resp, err, hist, cps, torn, last, pure >>

\* fetch_collections returns (offset >= total); main, lines 400-405
\* main goes into fetch_detail_records whatever the mode.
CollReturnDetail ==
    /\ pc = "coll_loop"
    /\ ~LoopCond(offset, total)
    /\ pc' = "detail_load"
    /\ UNCHANGED << world, disk, args, me, mem, out, calls, resp, err, hist, cps, torn, last, pure >>

CollReturn ==
    /\ pc = "coll_loop"
    /\ ~LoopCond(offset, total)
    /\ pc' = IF args.detail THEN "detail_load" ELSE "simple"
    /\ UNCHANGED << world, disk, args, me, mem, out, calls, resp, err, hist, cps, torn, last, pure >>

\* main, lines 419-432: simple mode
Simple ==
    /\ pc = "simple"
    /\ out' = [k \in 1 .. Len(collections) |-> build_simple_record(collections[k])]
    /\ pc' = "done"
    /\ UNCHANGED << world, disk, args, me, mem, calls, resp, err, hist, cps, torn, last, pure >>

\* The subject of the item the loop is at.
Sid == collections[i + 1].subject_id

\* The checkpoint is loaded but the loop starts at item 0 again.
DetailLoadNoSkip ==
    /\ pc = "detail_load"
    /\ records' = UnwrapOrDefault(Get(disk, "Vec<ExportRecord>", DoneKey(me.id)))
    /\ start_index' = Len(records')
    /\ i' = 0
    /\ pc' = IF 0 < Len(collections) THEN "subject" ELSE "export"
    /\ UNCHANGED << world, disk, args, me, collections, offset, total, page, detail,
                    all_episodes, ep_offset, progress, wkey, wdata, wret, out,
                    calls, resp, err, hist, cps, torn, last, pure >>

\* fetch_detail_records, lines 337-357: load the checkpoint, skip what it holds
DetailLoad ==
    /\ pc = "detail_load"
    /\ records' = UnwrapOrDefault(Get(disk, "Vec<ExportRecord>", DoneKey(me.id)))
    /\ start_index' = Len(records')
    /\ i' = start_index'
    /\ pc' = IF start_index' < Len(collections) THEN "subject" ELSE "export"
    /\ UNCHANGED << world, disk, args, me, collections, offset, total, page, detail,
                    all_episodes, ep_offset, progress, wkey, wdata, wret, out,
                    calls, resp, err, hist, cps, torn, last, pure >>

\* The loop body asks for the progress right after the subject detail.
FetchSubjectThenProgress ==
    /\ pc = "subject"
    /\ LET key == SubjectKey(me.id, Sid)
           hit == Get(disk, "SubjectDetail", key)
       IN  IF hit.some
           THEN /\ detail' = hit
                /\ pc' = "progress"
                /\ UNCHANGED << wkey, wdata, wret, calls, resp, err >>
           ELSE \E r \in {SubjectAnswer(world, Sid)} \cup Faults :
                /\ resp' = r
                /\ calls' = Bump(rate_limit(calls), "subject")
                /\ IF GetJson("SubjectDetail", r).ok
                   THEN /\ detail' = Some(GetJson("SubjectDetail", r).val)
                        /\ BeginWrite(key, Json("SubjectDetail", detail'.val), "progress")
                        /\ err' = err
                   ELSE /\ Fail(GetJson("SubjectDetail", r).err, "subject")
                        /\ UNCHANGED << detail, wkey, wdata, wret >>
    /\ UNCHANGED << world, disk, args, me, collections, offset, total, page, records,
                    start_index, i, all_episodes, ep_offset, progress, out, hist,
                    cps, torn, last, pure >>

\* fetch_subject, lines 132-138
FetchSubject ==
    /\ pc = "subject"
    /\ LET key == SubjectKey(me.id, Sid)
           hit == Get(disk, "SubjectDetail", key)
       IN  IF hit.some
           THEN /\ detail' = hit
                /\ pc' = "episodes"
                /\ UNCHANGED << wkey, wdata, wret, calls, resp, err >>
           ELSE \E r \in {SubjectAnswer(world, Sid)} \cup Faults :
                /\ resp' = r
                /\ calls' = Bump(rate_limit(calls), "subject")
                /\ IF GetJson("SubjectDetail", r).ok
                   THEN /\ detail' = Some(GetJson("SubjectDetail", r).val)
                        /\ BeginWrite(key, Json("SubjectDetail", detail'.val), "episodes")
                        /\ err' = err
                   ELSE /\ Fail(GetJson("SubjectDetail", r).err, "subject")
                        /\ UNCHANGED << detail, wkey, wdata, wret >>
    /\ UNCHANGED << world, disk, args, me, collections, offset, total, page, records,
                    start_index, i, all_episodes, ep_offset, progress, out, hist,
                    cps, torn, last, pure >>

\* On a miss the pagination goes on from where the locals stand.
FetchAllEpisodesKeepOffset ==
    /\ pc = "episodes"
    /\ LET key == EpisodesKey(me.id, Sid)
       IN  IF Has(disk, key)
           THEN /\ all_episodes' = UnwrapOrDefault(Get(disk, "Vec<Episode>", key))
                /\ ep_offset' = 0
                /\ pc' = "progress"
           ELSE /\ UNCHANGED << all_episodes, ep_offset >>
                /\ pc' = "ep_page"
    /\ UNCHANGED << world, disk, args, me, collections, offset, total, page, records,
                    start_index, i, detail, progress, wkey, wdata, wret, out, calls,
                    resp, err, hist, cps, torn, last, pure >>

\* fetch_all_episodes, lines 148-156: the whole-result key decides
FetchAllEpisodes ==
    /\ pc = "episodes"
    /\ LET key == EpisodesKey(me.id, Sid)
       IN  IF Has(disk, key)
           THEN /\ all_episodes' = UnwrapOrDefault(Get(disk, "Vec<Episode>", key))
                /\ pc' = "progress"
           ELSE /\ all_episodes' = << >>
                /\ pc' = "ep_page"
    /\ ep_offset' = 0
    /\ UNCHANGED << world, disk, args, me, collections, offset, total, page, records,
                    start_index, i, detail, progress, wkey, wdata, wret, out, calls,
                    resp, err, hist, cps, torn, last, pure >>

\* fetch_all_episodes, lines 157-170: one turn of the loop, and the store after
\* the last page
EpPage ==
    /\ pc = "ep_page"
    /\ \E r \in {EpisodesAnswer(world, Sid, EpLimit, ep_offset)} \cup Faults :
          /\ resp' = r
          /\ calls' = Bump(rate_limit(calls), "episodes")
          /\ IF GetJson("PagedEpisodes", r).ok
             THEN /\ all_episodes' = all_episodes \o GetJson("PagedEpisodes", r).val.data
                  /\ ep_offset' = ep_offset + EpLimit
                  /\ IF ep_offset' >= GetJson("PagedEpisodes", r).val.total
                     THEN BeginWrite(EpisodesKey(me.id, Sid),
                                     IF all_episodes' = << >> THEN EmptyFile
                                     ELSE Json("Vec<Episode>", all_episodes'),
                                     "progress")
                     ELSE UNCHANGED << pc, wkey, wdata, wret >>
                  /\ err' = err
             ELSE /\ Fail(GetJson("PagedEpisodes", r).err, "ep_page")
                  /\ UNCHANGED << all_episodes, ep_offset, wkey, wdata, wret >>
    /\ UNCHANGED << world, disk, args, me, collections, offset, total, page, records,
                    start_index, i, detail, progress, out, hist, cps, torn, last, pure >>

\* fetch_progress, lines 181-190
FetchProgress ==
    /\ pc = "progress"
    /\ LET key == ProgressKey(me.id, Sid)
       IN  IF Has(disk, key)
           THEN /\ progress' = Get(disk, "UserProgress", key)
                /\ pc' = "build"
                /\ UNCHANGED << wkey, wdata, wret, calls, resp, err >>
           ELSE \E r \in {ProgressAnswer(world, Sid)} \cup (Faults \ {Response(404, EmptyFile)}) :
                /\ resp' = r
                /\ calls' = Bump(rate_limit(calls), "progress")
                /\ IF GetProgress(r).ok
                   THEN /\ progress' = GetProgress(r).val
                        /\ BeginWrite(key,
                                      IF progress'.some
                                      THEN Json("UserProgress", progress'.val)
                                      ELSE EmptyFile,
                                      "build")
                        /\ err' = err
                   ELSE /\ Fail(GetProgress(r).err, "progress")
                        /\ UNCHANGED << progress, wkey, wdata, wret >>
    /\ UNCHANGED << world, disk, args, me, collections, offset, total, page, records,
                    start_index, i, detail, all_episodes, ep_offset, out, hist,
                    cps, torn, last, pure >>

\* The new record is put in front of the list.
BuildPrepend ==
    /\ pc = "build"
    /\ records' = << build_detail_record(collections[i + 1], detail.val,
                                         all_episodes, progress) >> \o records
    /\ BeginWrite(DoneKey(me.id), Json("Vec<ExportRecord>", records'), "loop_next")
    /\ UNCHANGED << world, disk, args, me, collections, offset, total, page,
                    start_index, i, detail, all_episodes, ep_offset, progress, out,
                    calls, resp, err, hist, cps, torn, last, pure >>

\* The record is pushed and the checkpoint is not written.
BuildNoCheckpoint ==
    /\ pc = "build"
    /\ records' = Append(records,
                         build_detail_record(collections[i + 1], detail.val,
                                             all_episodes, progress))
    /\ pc' = "loop_next"
    /\ UNCHANGED << world, disk, args, me, collections, offset, total, page,
                    start_index, i, detail, all_episodes, ep_offset, progress,
                    wkey, wdata, wret, out, calls, resp, err, hist, cps, torn, last, pure >>

\* fetch_detail_records, lines 372-375: build, push, and start the checkpoint
Build ==
    /\ pc = "build"
    /\ records' = Append(records,
                         build_detail_record(collections[i + 1], detail.val,
                                             all_episodes, progress))
    /\ BeginWrite(DoneKey(me.id), Json("Vec<ExportRecord>", records'), "loop_next")
    /\ UNCHANGED << world, disk, args, me, collections, offset, total, page,
                    start_index, i, detail, all_episodes, ep_offset, progress, out,
                    calls, resp, err, hist, cps, torn, last, pure >>

\* fetch_detail_records, line 354: the iterator moves on
LoopNext ==
    /\ pc = "loop_next"
    /\ i' = i + 1
    /\ pc' = IF i' < Len(collections) THEN "subject" ELSE "export"
    /\ UNCHANGED << world, disk, args, me, collections, offset, total, page, records,
                    start_index, detail, all_episodes, ep_offset, progress, wkey,
                    wdata, wret, out, calls, resp, err, hist, cps, torn, last, pure >>

\* fetch_detail_records returns; main, lines 406-417
Export ==
    /\ pc = "export"
    /\ out' = records
    /\ pc' = "done"
    /\ UNCHANGED << world, disk, args, me, mem, calls, resp, err, hist, cps, torn, last, pure >>

\* A write that removes the file it was to replace.
WriteOpenRemoves ==
    /\ pc = "write_open"
    /\ disk' = [p \in DOMAIN disk \ {Path(wkey)} |-> disk[p]]
    /\ pc' = "write_data"
    /\ UNCHANGED << world, args, me, mem, out, calls, resp, err, hist, cps, torn, last, pure >>

\* std::fs::write, first half: the file is created or truncated
WriteOpen ==
    /\ pc = "write_open"
    /\ disk' = WithFile(disk, wkey, EmptyFile)
    /\ pc' = "write_data"
    /\ UNCHANGED << world, args, me, mem, out, calls, resp, err, hist, cps, torn, last, pure >>

\* std::fs::write, second half: the data is written; set / set_empty return Ok
WriteData ==
    /\ pc = "write_data"
    /\ disk' = WithFile(disk, wkey, wdata)
    /\ pc' = wret
    /\ cps' = IF wkey = DoneKey(me.id) THEN cps \cup {wdata.val} ELSE cps
    /\ torn' = torn \ {Path(wkey)}
    /\ UNCHANGED << world, args, me, mem, out, calls, resp, err, hist, last, pure >>

\* What is left of a process that was killed: nothing but the disk.
Killed ==
    /\ pc' = "crashed"
    /\ args' = [no_cache |-> FALSE, detail |-> FALSE]
    /\ me' = NoUser
    /\ MemInit
    /\ out' = << >>
    /\ calls' = NoCalls
    /\ resp' = NoResponse
    /\ err' = None
    /\ cold' = FALSE
    /\ warm' = FALSE
    /\ prevOut' = << >>
    /\ UNCHANGED << world, cps, last, pure >>

\* The process is killed (Ctrl-C, power loss) between two steps; between the
\* two halves of a write the file is left truncated.
Crash ==
    /\ pc \in Running
    /\ Killed
    /\ torn' = IF pc = "write_data" /\ wdata # EmptyFile
               THEN torn \cup {Path(wkey)} ELSE torn
    /\ UNCHANGED disk

\* The process is killed while write_all is under way: part of the data is
\* in the file.
CrashMidWrite ==
    /\ pc = "write_data"
    /\ wdata.kind = "json"
    /\ disk' = WithFile(disk, wkey, PartialFile)
    /\ torn' = torn \cup {Path(wkey)}
    /\ Killed

Next ==
    \/ \E nc \in BOOLEAN, dt \in BOOLEAN : StartRun(nc, dt)
    \/ GetMe
    \/ CollFirst
    \/ CollFirstUse
    \/ CollNext
    \/ CollNextUse
    \/ CollReturn
    \/ Simple
    \/ DetailLoad
    \/ FetchSubject
    \/ FetchAllEpisodes
    \/ EpPage
    \/ FetchProgress
    \/ Build
    \/ LoopNext
    \/ Export
    \/ WriteOpen
    \/ WriteData
    \/ Crash
    \/ CrashMidWrite

Spec == Init /\ [][Next]_vars

(* ------------------- the cache alone (cache.rs) ------------------------ *)

\* What stays as it is while only Cache operations run.
pipeline == << world, pc, args, me, mem, out, calls, resp, err, hist, cps, torn, pure >>

InitCache == Init /\ world = [total |-> 0, rot |-> 0, drift |-> "none"]

\* cache.set(k, v), run to its end
CacheSet(k, v) ==
    /\ disk' = Set(disk, v.ty, k, v.val)
    /\ last' = [op |-> [last.op EXCEPT ![k] = [kind |-> "set", v |-> v]],
                wiped |-> {}]
    /\ UNCHANGED pipeline

\* cache.set_empty(k), run to its end
CacheSetEmpty(k) ==
    /\ disk' = SetEmpty(disk, k)
    /\ last' = [op |-> [last.op EXCEPT ![k] = [kind |-> "set_empty"]],
                wiped |-> {}]
    /\ UNCHANGED pipeline

\* cache.clear()
CacheClear ==
    /\ disk' = Clear(disk)
    /\ last' = [op |-> [k \in CacheKeys |-> [kind |-> "none"]],
                wiped |-> last.wiped \cup {k \in CacheKeys : last.op[k].kind # "none"}]
    /\ UNCHANGED pipeline

NextCache ==
    \/ \E k \in CacheKeys, v \in CacheValues : CacheSet(k, v)
    \/ \E k \in CacheKeys : CacheSetEmpty(k)
    \/ CacheClear

SpecCache == InitCache /\ [][NextCache]_vars

(* ----------------- fetch_collections alone (main.rs) ------------------- *)

InitCursor ==
    /\ world \in CursorWorlds
    /\ Idle
    /\ pure = NoPure

\* Runs in simple mode: main goes no further than fetch_collections and the export.
NextCursor ==
    \/ \E nc \in BOOLEAN : StartRun(nc, FALSE)
    \/ GetMe
    \/ CollFirst
    \/ CollFirstUse
    \/ CollNext
    \/ CollNextUse
    \/ CollReturn
    \/ Simple
    \/ WriteOpen
    \/ WriteData
    \/ Crash
    \/ CrashMidWrite

SpecCursor == InitCursor /\ [][NextCursor]_vars

(* --------------- run_length_encode alone (models.rs) ------------------- *)

\* Longest list of the short inputs.
MaxLen == 3

\* Episode numbers of the inputs: small ones and the two largest u64.
RleVals == {0, 1, 2, 3, 5, U64Max - 1, U64Max}

RleLists == UNION {[1 .. n -> RleVals] : n \in 0 .. MaxLen}

\* Longer inputs.
RleLong == { <<1, 3, 4, 5, 9>>, <<9, 5, 1, 4, 3, 3>>, <<4, 3, 2, 1, 0>> }

Range(l) == {l[k] : k \in 1 .. Len(l)}

Reverse(l) == [k \in 1 .. Len(l) |-> l[Len(l) + 1 - k]]

\* Two lists with the same values, before the calls.
InitRle ==
    /\ world = [total |-> 0, rot |-> 0, drift |-> "none"]
    /\ Idle
    /\ \E xs \in RleLists \cup RleLong :
          \E ys \in {l \in RleLists \cup RleLong : Range(l) = Range(xs)}
                     \cup {Reverse(xs), xs \o Reverse(xs)} :
              pure = [f |-> "run_length_encode", done |-> FALSE,
                      xs |-> xs, ys |-> ys, rx |-> "", ry |-> "", panic |-> FALSE]

\* run_length_encode(&xs) and run_length_encode(&ys)
RleCall ==
    /\ ~pure.done
    /\ pure' = [pure EXCEPT !.done = TRUE,
                            !.rx = run_length_encode(pure.xs),
                            !.ry = run_length_encode(pure.ys),
                            !.panic = Overflows(pure.xs) \/ Overflows(pure.ys)]
    /\ UNCHANGED << world, disk, pc, args, me, mem, out, calls, resp, err, hist,
                    cps, torn, last >>

NextRle == RleCall

SpecRle == InitRle /\ [][NextRle]_vars

(* --------------- build_detail_record alone (main.rs) ------------------- *)

\* Largest number of main episodes of the subjects given to build_detail_record.
MaxMain == 10

\* The main episodes 1 .. m and, when sp, one special episode. With halves
\* the sort values are 1.0, 1.5, 2.0, 2.5, ... so that two episodes share
\* each integer ordinal; without, they are 1.0, 2.0, 3.0, ...
EpisodeList(m, halves, sp) ==
    [k \in 1 .. m |-> Episode(k, 0, IF halves THEN k + 1 ELSE 2 * k)]
    \o (IF sp THEN << Episode(50, 1, 2) >> ELSE << >>)

\* Episodes 1 .. w watched, the rest of 1 .. m on the wish list; when sp the
\* special episode watched; when odd an episode that is not in the list
\* watched, and episode 1 reported twice.
ProgressList(m, w, sp, odd) ==
    [subject_id |-> 101,
     eps |-> [k \in 1 .. m |-> [id |-> k, status |-> IF k <= w THEN 2 ELSE 1]]
             \o (IF sp THEN << [id |-> 50, status |-> 2] >> ELSE << >>)
             \o (IF odd THEN << [id |-> 77, status |-> 2], [id |-> 1, status |-> 2] >>
                  ELSE << >>)]

\* The arguments of one call.
InitRecord ==
    /\ world = [total |-> 0, rot |-> 0, drift |-> "none"]
    /\ Idle
    /\ \E m \in 0 .. MaxMain, halves \in BOOLEAN, sp \in BOOLEAN, odd \in BOOLEAN,
          eps \in {0, 4}, te \in {0, 3, 8}, st \in 0 .. 3, none \in BOOLEAN :
          \E w \in 0 .. m :
              pure = [f |-> "build_detail_record", done |-> FALSE,
                      col |-> [subject_id |-> 101, ep_status |-> st, rate |-> 0],
                      detail |-> [id |-> 101, eps |-> eps, total_episodes |-> te],
                      all_episodes |-> EpisodeList(m, halves, sp),
                      progress |-> IF none THEN None
                                   ELSE Some(ProgressList(m, w, sp, odd)),
                      rec |-> [url |-> 0]]

\* build_detail_record(col, &detail, &all_episodes, &progress)
RecordCall ==
    /\ ~pure.done
    /\ pure' = [pure EXCEPT !.done = TRUE,
                            !.rec = build_detail_record(pure.col, pure.detail,
                                                        pure.all_episodes, pure.progress)]
    /\ UNCHANGED << world, disk, pc, args, me, mem, out, calls, resp, err, hist,
                    cps, torn, last >>

NextRecord == RecordCall

SpecRecord == InitRecord /\ [][NextRecord]_vars

(* ------------------------------- claims -------------------------------- *)

\* What one uninterrupted detailed run against world w returns when it starts
\* with an empty cache and no request fails: every value comes from the remote.
FreshOutput(w) ==
    [j \in 1 .. w.total |->
        build_detail_record(Collection(j),
                            SubjectDetailOf(w, SubjectId(j)),
                            EpisodesOf(w, SubjectId(j)),
                            GetProgress(ProgressAnswer(w, SubjectId(j))).val)]

\* C1. Resume correctness: a detailed run that completes, whatever checkpoint
\* of k records (0 <= k <= N) and whatever cached values earlier interrupted
\* runs left behind, returns the N records of one uninterrupted run from an
\* empty cache, in the same order. The interruptions covered are those that
\* leave every file whole (in particular one right after a checkpoint).
C1_ResumeCorrect ==
    (pc = "done" /\ args.detail /\ torn = {}) => out = FreshOutput(world)

\* A run that found a checkpoint of 0 < k < N records, fetched the rest and
\* completed.
C1_Witness ==
    /\ pc = "done" /\ args.detail /\ torn = {}
    /\ 0 < start_index /\ start_index < world.total
    /\ calls.subject > 0
    /\ Len(out) = world.total

\* C2 as stated: the second run over the cache of a completed run returns the
\* same records and sends no remote request at all.
C2_ZeroRemoteCalls ==
    (pc = "done" /\ warm) => (out = prevOut /\ TotalCalls(calls) = 0)

\* C2, amended. Idempotence: the second run returns the same records and sends
\* one remote request, the profile lookup, and no other.
C2_Idempotent ==
    (pc = "done" /\ warm) => (out = prevOut /\ calls = Bump(NoCalls, "me"))

\* A second detailed run over the cache of a completed one, with two records.
C2_Witness ==
    pc = "done" /\ warm /\ args.detail /\ Len(out) >= 2 /\ out = prevOut

\* C3 as stated: from an empty cache fetch_collections sends ceil(total / L)
\* page requests and returns total items.
C3_CeilPageRequests ==
    (cold /\ pc \in {"simple", "detail_load"}) =>
        /\ calls.page = CeilDiv(world.total, CollLimit)
        /\ Len(collections) = world.total

\* C3, amended. Pagination count: from an empty cache fetch_collections sends
\* max(1, ceil(total / L)) page requests (one even when total = 0) and returns
\* total items.
C3_PageRequests ==
    (cold /\ pc \in {"simple", "detail_load"}) =>
        /\ calls.page = Max(1, CeilDiv(world.total, CollLimit))
        /\ Len(collections) = world.total

\* fetch_collections has returned a list of more than two pages.
C3_Witness ==
    /\ cold /\ pc = "simple"
    /\ world.total > 2 * CollLimit
    /\ calls.page = 3
    /\ Len(collections) = world.total

\* C4. Cache three-state law: for every key k, if the last operation on k
\* since the last clear() was set_empty(k) then has(k) is true and get(k) is
\* None; if it was set(k, v) then get(k) is Some(v) at the type of v; and right
\* after clear(), has(k) is false for every key written before.
C4_ThreeStateLaw ==
    /\ \A k \in CacheKeys :
          /\ last.op[k].kind = "set_empty" =>
                /\ Has(disk, k)
                /\ \A ty \in CacheTypes : Get(disk, ty, k) = None
          /\ last.op[k].kind = "set" =>
                Get(disk, last.op[k].v.ty, k) = Some(last.op[k].v.val)
    /\ \A k \in last.wiped : ~Has(disk, k)

\* The list a run would load from uid/done_records (main.rs:338).
Checkpoint(d) == UnwrapOrDefault(Get(d, "Vec<ExportRecord>", DoneKey(Me.id)))

\* Where main is inside the loop of fetch_detail_records.
InItem == {"subject", "episodes", "ep_page", "progress", "build", "loop_next"}

\* C5 as stated: every list stored at uid/done_records is no longer than the
\* collection list and is a strict (proper) prefix of the final output.
C5_StrictPrefix ==
    \A c \in cps \cup {Checkpoint(disk)} :
        /\ Len(c) <= world.total
        /\ (pc = "done" /\ args.detail) => (IsPrefix(c, out) /\ c # out)

\* C5, amended. Checkpoint prefix invariant: every list stored at
\* uid/done_records since the last clear is no longer than the collection list
\* and is a prefix, in collection-list order, of the final output of
\* fetch_detail_records (equal to it once the last item is checkpointed); and
\* while a run is in the loop the stored list is a prefix of its records.
C5_Prefix ==
    /\ \A c \in cps \cup {Checkpoint(disk)} :
          /\ Len(c) <= world.total
          /\ (pc = "done" /\ args.detail) => IsPrefix(c, out)
    /\ (args.detail /\ pc \in InItem \cup {"export"}) => IsPrefix(Checkpoint(disk), records)

\* A resumed run has completed: a one-record checkpoint was stored earlier and
\* the output has two records.
C5_Witness ==
    /\ pc = "done" /\ args.detail
    /\ start_index = 1
    /\ Len(out) = 2
    /\ \E c \in cps : Len(c) = 1

\* C6. Per-item checkpointing: wherever a detailed run can be interrupted, the
\* in-memory record list is at most one record longer than the list persisted
\* at uid/done_records.
C6_AtMostOneAhead ==
    (args.detail /\ pc \in Running) => Len(records) <= Len(Checkpoint(disk)) + 1

\* A stored file that exists, is not empty and does not deserialize.
Undecodable(d, key) == Has(d, key) /\ d[Path(key)].kind = "partial"

\* C7. Decode failure is a cache miss: once a run has passed the fetch of a
\* key, a file that did not deserialize has been overwritten with the fresh
\* value (collection pages, subject detail, episode list, progress,
\* done_records).
C7_DecodeFailureRefetched ==
    /\ pc \in {"simple", "detail_load"} =>
          \A k \in 0 .. (Len(collections) \div CollLimit) :
              ~Undecodable(disk, CollKey(me.id, k * CollLimit))
    /\ (args.detail /\ pc = "build") =>
          /\ ~Undecodable(disk, SubjectKey(me.id, Sid))
          /\ ~Undecodable(disk, EpisodesKey(me.id, Sid))
          /\ ~Undecodable(disk, ProgressKey(me.id, Sid))
    /\ (args.detail /\ pc = "done") => ~Undecodable(disk, DoneKey(Me.id))

\* C8. Crash consistency: after the process was killed every file holds its
\* previous or its complete new content, and a later run that completes
\* returns what an uninterrupted run returns.
C8_CrashConsistent ==
    /\ pc = "crashed" => torn = {}
    /\ (pc = "done" /\ args.detail) => out = FreshOutput(world)

\* The progress lookup was answered 404, or 2xx with an empty or null body.
ProgressAbsent(r) ==
    /\ r.sent
    /\ \/ r.status = 404
       \/ r.status >= 200 /\ r.status <= 299 /\ r.body.kind \in {"null", "empty"}

\* C9. Progress not-found is absence: when get_progress returns to
\* fetch_progress after an answer of 404, or of success with an empty or null
\* body, the progress is None and the Empty marker is what gets written to
\* uid/progress/id, after which the run builds the item's record; any other
\* answer that lets the run go on is a success carrying a progress; and a run
\* that failed in the progress lookup got neither.
C9_ProgressAbsence ==
    /\ (pc \in {"write_open", "write_data"} /\ wret = "build") =>
          /\ wkey = ProgressKey(me.id, Sid)
          /\ ProgressAbsent(resp) => (progress = None /\ wdata = EmptyFile)
          /\ ~ProgressAbsent(resp) =>
                /\ resp.sent /\ resp.status >= 200 /\ resp.status <= 299
                /\ progress.some /\ wdata = Json("UserProgress", progress.val)
    /\ (pc = "build" /\ wkey = ProgressKey(me.id, Sid) /\ wdata = EmptyFile) =>
          /\ progress = None
          /\ Has(disk, wkey) /\ disk[Path(wkey)] = EmptyFile
    /\ (pc = "failed" /\ err.some /\ err.val.at = "progress") =>
          /\ ~ProgressAbsent(resp)
          /\ ~(resp.sent /\ resp.status >= 200 /\ resp.status <= 299
                 /\ resp.body.kind = "json")
          /\ ~Has(disk, ProgressKey(me.id, Sid))

\* The run stored the Empty marker after a 404 and is about to build the record.
C9_Witness ==
    /\ pc = "build" /\ resp.sent /\ resp.status = 404
    /\ progress = None
    /\ disk[Path(ProgressKey(me.id, Sid))] = EmptyFile

\* A run failed while it was fetching for item i.
FailedInItem == pc = "failed" /\ err.some /\ err.val.at \in {"subject", "ep_page", "progress"}

\* The key whose fetch failed holds no value.
FailedKeyHoldsNothing ==
    CASE err.val.at = "subject" -> ~Get(disk, "SubjectDetail", SubjectKey(me.id, Sid)).some
      [] err.val.at = "ep_page" -> ~Has(disk, EpisodesKey(me.id, Sid))
      [] OTHER -> ~Has(disk, ProgressKey(me.id, Sid))

C10_State ==
    FailedInItem =>
        /\ Checkpoint(disk) = records
        /\ Len(records) = i
        /\ torn = {} => records = SubSeq(FreshOutput(world), 1, i)
        /\ FailedKeyHoldsNothing

C10_Step ==
    /\ (pc' = "failed" /\ pc # "failed") => disk' = disk
    /\ pc = "failed" => (pc' = "get_me" /\ calls' = NoCalls)

\* C10. Fatal failure keeps the checkpoint: when a remote call for item i
\* fails, the failing step writes nothing, the list at uid/done_records equals
\* the records of items 0..i-1, the key whose fetch failed holds no value, and
\* the only step that follows is the start of a new run.
C10_FatalKeepsCheckpoint == [] C10_State /\ [][C10_Step]_vars

\* The second item's episode request failed with one record checkpointed.
C10_Witness ==
    /\ FailedInItem /\ err.val.at = "ep_page"
    /\ i = 1 /\ Len(records) = 1
    /\ Checkpoint(disk) = records

\* The requests of the log that go to a rate-limited endpoint.
Limited(l) == {k \in 1 .. Len(l) : l[k].ev = "request" /\ l[k].to # "me"}

Delays(l) == {k \in 1 .. Len(l) : l[k].ev = "delay"}

\* C11. Rate-limit ordering: in every run each collection-page,
\* subject-detail, episode-page and progress request comes right after one
\* delay of REQUEST_INTERVAL which itself comes after the previous request;
\* the profile lookup is the first thing the client does and has no delay
\* before it; there are exactly as many delays as rate-limited requests, so a
\* fetch answered from the cache has none, and a run answered from the cache
\* alone has no delay at all.
C11_RateLimit ==
    /\ \A k \in 1 .. Len(calls.log) :
          /\ (calls.log[k].ev = "request" /\ calls.log[k].to = "me") => k = 1
          /\ k \in Limited(calls.log) =>
                /\ k > 2
                /\ calls.log[k - 1].ev = "delay"
                /\ calls.log[k - 1].secs = REQUEST_INTERVAL
                /\ calls.log[k - 2].ev = "request"
          /\ k \in Delays(calls.log) =>
                (k < Len(calls.log) /\ k + 1 \in Limited(calls.log))
    /\ Cardinality(Delays(calls.log)) =
          calls.page + calls.subject + calls.episodes + calls.progress
    /\ Cardinality(Limited(calls.log)) = Cardinality(Delays(calls.log))
    /\ (pc = "done" /\ warm) => Delays(calls.log) = {}

\* A detailed run that took some values from the cache and fetched others has
\* completed after requests to all four rate-limited endpoints.
C11_Witness ==
    /\ pc = "done" /\ args.detail /\ ~cold
    /\ calls.page = 0 /\ calls.subject > 0 /\ calls.episodes > 1 /\ calls.progress > 0
    /\ Cardinality(Delays(calls.log)) >= 4

\* The first values of the maximal runs of consecutive integers in S.
RunStarts(S) == {a \in S : (a - 1) \notin S}

\* The last value of the run of S that starts at a.
RunEnd(S, a) == CHOOSE b \in S : b >= a /\ (b + 1) \notin S /\ \A x \in a .. b : x \in S

\* The values of T in ascending order.
RECURSIVE Ascending(_)
Ascending(T) ==
    IF T = {} THEN << >>
    ELSE LET m == CHOOSE x \in T : \A y \in T : x <= y
         IN  <<m>> \o Ascending(T \ {m})

\* The text the specification gives for the set S: "a-b" for each maximal run
\* a..b with a < b, "a" for each isolated value, ascending, joined by ','.
RECURSIVE Segments(_, _)
Segments(S, starts) ==
    IF starts = << >> THEN ""
    ELSE LET a == Head(starts)
             b == RunEnd(S, a)
             seg == IF a < b THEN ToString(a) \o "-" \o ToString(b) ELSE ToString(a)
         IN  IF Len(starts) = 1 THEN seg
             ELSE seg \o "," \o Segments(S, Tail(starts))

\* C12. Run-length encoding result: run_length_encode returns the comma-joined
\* segments of the sorted, deduplicated input in ascending order, "a-b" for
\* each maximal run of consecutive integers a..b with a < b and "a" for each
\* isolated value; [] gives "", [5] gives "5", [1,2,3] gives "1-3" and
\* [1,3,4,5,9] gives "1,3-5,9".
C12_RleResult ==
    /\ pure.done =>
          pure.rx = Segments(Range(pure.xs), Ascending(RunStarts(Range(pure.xs))))
    /\ (pure.done /\ pure.xs = << >>) => pure.rx = ""
    /\ (pure.done /\ pure.xs = <<5>>) => pure.rx = "5"
    /\ (pure.done /\ pure.xs = <<1, 2, 3>>) => pure.rx = "1-3"
    /\ (pure.done /\ pure.xs = <<1, 3, 4, 5, 9>>) => pure.rx = "1,3-5,9"

\* An unsorted input with a repeat, a run and an isolated value was encoded.
C12_Witness ==
    /\ pure.done
    /\ pure.xs = <<9, 5, 1, 4, 3, 3>>
    /\ pure.rx = "1,3-5,9"

\* C13. Run-length encoding is invariant under permutation and duplication:
\* two lists that hold the same set of values have the same encoding.
C13_RlePermutation ==
    (pure.done /\ Range(pure.xs) = Range(pure.ys)) => pure.rx = pure.ry

\* Two different lists with the same values, one with a repeat, were encoded.
C13_Witness ==
    /\ pure.done
    /\ pure.xs = <<2, 1, 2>> /\ pure.ys = <<1, 2>>
    /\ pure.rx = "1-2" /\ pure.ry = "1-2"

\* The main (type 0) episodes of the call, as positions in the list.
MainOf(p) == {k \in 1 .. Len(p.all_episodes) : p.all_episodes[k].episode_type = 0}

\* The ids the progress reports as watched (status 2).
WatchedIds(p) ==
    IF p.progress.some
    THEN {p.progress.val.eps[k].id :
             k \in {j \in 1 .. Len(p.progress.val.eps) : p.progress.val.eps[j].status = 2}}
    ELSE {}

\* The watched main episodes of the call, as positions in the list.
WatchedMainOf(p) == {k \in MainOf(p) : p.all_episodes[k].id \in WatchedIds(p)}

\* C14. Completeness percentage: with M main episodes, w watched main
\* episodes and declared total = max(total_episodes, eps), completeness_pct is
\* round(w / M * 100) followed by '%' when M > 0, else
\* round(ep_status / declared total * 100) followed by '%' when the declared
\* total is positive, else "N/A"; round takes a tie away from zero.
C14_CompletenessPct ==
    pure.done =>
        LET M == Cardinality(MainOf(pure))
            w == Cardinality(WatchedMainOf(pure))
            declared == Max(pure.detail.total_episodes, pure.detail.eps)
        IN  pure.rec.completeness_pct =
                IF M > 0 THEN ToString(PercentHalfUp(w, M)) \o "%"
                ELSE IF declared > 0
                     THEN ToString(PercentHalfUp(pure.col.ep_status, declared)) \o "%"
                     ELSE "N/A"

\* The keys uid/collections/o.
IsCollKey(key) == Len(key) = 3 /\ key[2] = <<"collections">>

\* The files of the keys uid/subjects/*, uid/episodes/*, uid/progress/* and
\* uid/done_records: all files but the collection pages.
DetailFiles(d) ==
    [p \in {q \in DOMAIN d : ~(Len(q) = 3 /\ q[2] = <<"collections">>)} |-> d[p]]

\* Where main calls the cache or the client for a key of the detail mode.
DetailPoints == {"detail_load", "export"} \cup InItem

C15_State ==
    (~args.detail /\ pc \in Running \cup {"done", "failed"}) =>
        /\ calls.subject = 0 /\ calls.episodes = 0 /\ calls.progress = 0
        /\ \A k \in 1 .. Len(calls.log) :
              calls.log[k].ev = "request" => calls.log[k].to \in {"me", "page"}
        /\ pc \notin DetailPoints
        /\ pc \in {"write_open", "write_data"} => IsCollKey(wkey)

C15_Step ==
    (~args.detail /\ pc \in Running) => DetailFiles(disk') = DetailFiles(disk)

\* C15. Simple mode makes no extra API calls: a run without detail mode sends
\* only the profile lookup and collection-page requests, never reaches the
\* code that reads or writes uid/subjects/*, uid/episodes/*, uid/progress/*
\* or uid/done_records, writes collection-page keys only, and none of its
\* steps, a kill included, changes a file of those keys.
C15_SimpleMode == [] C15_State /\ [][C15_Step]_vars

\* A simple run completed while the cache held the files of a detailed run.
C15_Witness ==
    /\ pc = "done" /\ ~args.detail
    /\ Len(out) = 2 /\ calls.me = 1
    /\ Has(disk, SubjectKey(Me.id, 101)) /\ Has(disk, EpisodesKey(Me.id, 102))
    /\ Has(disk, ProgressKey(Me.id, 101)) /\ Len(Checkpoint(disk)) = 2

\* The key holds the zero-length Empty marker.
IsMarker(d, key) == Path(key) \in DOMAIN d /\ d[Path(key)] = EmptyFile

\* The paths of the keys uid/episodes/* and uid/progress/*.
IsMarkerPath(p) == Len(p) = 3 /\ p[2] \in {<<"episodes">>, <<"progress">>}

C16_Step ==
    /\ (pc = "episodes" /\ pc' # "crashed" /\ IsMarker(disk, EpisodesKey(me.id, Sid))) =>
          /\ calls' = calls /\ disk' = disk
          /\ all_episodes' = << >>
          /\ pc' = "progress"
    /\ (pc = "progress" /\ pc' # "crashed" /\ IsMarker(disk, ProgressKey(me.id, Sid))) =>
          /\ calls' = calls /\ disk' = disk
          /\ progress' = None
          /\ pc' = "build"
    /\ \A p \in DOMAIN disk :
          (/\ IsMarkerPath(p) /\ disk[p] = EmptyFile
           /\ ~(pc = "write_data" /\ Path(wkey) = p)
           /\ ~(pc \in Stopped /\ args'.no_cache)) =>
              (p \in DOMAIN disk' /\ disk'[p] = EmptyFile)

\* C16. Empty marker is never re-fetched: a call of fetch_all_episodes
\* (fetch_progress) that finds the zero-length marker at uid/episodes/id
\* (uid/progress/id) sends no request, writes nothing and returns the empty
\* list (no progress); and the marker, once written, stays until the store is
\* cleared, so this holds in the same and in every later run.
C16_MarkerNotRefetched == [][C16_Step]_vars

\* A later run has read both markers of an item and is about to build its
\* record without having sent an episode or progress request.
C16_Witness ==
    /\ pc = "build" /\ ~cold /\ torn = {}
    /\ IsMarker(disk, EpisodesKey(me.id, Sid)) /\ IsMarker(disk, ProgressKey(me.id, Sid))
    /\ all_episodes = << >> /\ progress = None
    /\ calls.episodes = 0 /\ calls.progress = 0

\* The requests sent so far in this run.
Requests(l) == {k \in 1 .. Len(l) : l[k].ev = "request"}

\* The step ends in the write that follows a fetch, after which main goes on at ret.
ToWrite(ret) == pc' = "write_open" /\ wret' = ret

\* What the item's fetches have brought once each is complete.
C17_State ==
    /\ pc \in {"episodes", "ep_page"} =>
          (detail.some /\ detail.val.id = Sid)
    /\ pc = "ep_page" =>
          /\ ep_offset % EpLimit = 0 /\ Len(all_episodes) = ep_offset
          /\ ep_offset > 0 => ep_offset < Len(EpisodesOf(world, Sid))
    /\ pc \in {"progress", "build"} =>
          /\ detail.some /\ detail.val.id = Sid
          /\ torn = {} => all_episodes = EpisodesOf(world, Sid)
    /\ (pc = "build" /\ torn = {}) =>
          progress = GetProgress(ProgressAnswer(world, Sid)).val
    /\ pc \in InItem => (i < Len(collections) /\ Len(records) = i + (IF pc = "loop_next" THEN 1 ELSE 0))

\* The order of the steps of one item, a kill aside.
C17_Step ==
    /\ Cardinality(Requests(calls'.log)) <= Cardinality(Requests(calls.log)) + 1
    /\ pc' # "crashed" =>
          /\ pc = "subject" => (pc' \in {"episodes", "failed"} \/ ToWrite("episodes"))
          /\ pc = "episodes" => pc' \in {"ep_page", "progress"}
          /\ pc = "ep_page" => (pc' \in {"ep_page", "failed"} \/ ToWrite("progress"))
          /\ pc = "progress" => (pc' \in {"build", "failed"} \/ ToWrite("build"))
          /\ pc = "build" => (ToWrite("loop_next") /\ Len(records') = Len(records) + 1)
          /\ pc = "loop_next" => (pc' \in {"subject", "export"} /\ i' = i + 1)
          /\ (pc \in InItem \ {"loop_next"} \/ (pc \in {"write_open", "write_data"} /\ wret \in InItem)) =>
                i' = i
          /\ (pc \in {"write_open", "write_data"} /\ wret \in InItem) =>
                (calls' = calls /\ wret' = wret /\ pc' \in {"write_data", wret})
          /\ (pc \in InItem /\ calls'.subject > calls.subject) => pc = "subject"
          /\ (pc \in InItem /\ calls'.episodes > calls.episodes) => pc = "ep_page"
          /\ (pc \in InItem /\ calls'.progress > calls.progress) => pc = "progress"

\* C17. Strict fetch order: a step sends at most one request and has its
\* answer before the next step; for every item of the loop the subject detail
\* is fetched first, then the episode pages one after the other, then the
\* progress, then the record is built, and only then does the loop move to
\* the next item.
C17_StrictOrder == [] C17_State /\ [][C17_Step]_vars

\* The second item's progress is being fetched after two episode pages, all
\* from the remote.
C17_Witness ==
    /\ pc = "write_open" /\ wret = "build" /\ i = 1
    /\ calls.subject = 2 /\ calls.progress = 2
    /\ Len(all_episodes) > EpLimit
    /\ calls.log[Len(calls.log)].to = "progress"
    /\ calls.log[Len(calls.log) - 2].to = "episodes"
    /\ calls.log[Len(calls.log) - 4].to = "episodes"
    /\ calls.log[Len(calls.log) - 6].to = "subject"

\* The offsets of the pages of a list of n items.
PageOffsets(n) == {k * CollLimit : k \in 0 .. ((Max(n, 1) - 1) \div CollLimit)}

C18_State ==
    /\ pc = "ep_page" => ~Has(disk, EpisodesKey(me.id, Sid))
    /\ (pc = "write_open" /\ wret = "progress") =>
          /\ wkey = EpisodesKey(me.id, Sid) /\ ~Has(disk, wkey)
          /\ all_episodes = EpisodesOf(world, Sid)
          /\ wdata = IF all_episodes = << >> THEN EmptyFile
                     ELSE Json("Vec<Episode>", all_episodes)
    /\ (pc \in {"simple", "detail_load"} /\ torn = {}) =>
          /\ \A o \in PageOffsets(world.total) :
                Get(disk, "PagedCollection", CollKey(me.id, o)).some
          /\ calls.page <= Cardinality(PageOffsets(world.total))

C18_Step ==
    /\ (pc = "episodes" /\ pc' = "ep_page") => (ep_offset' = 0 /\ all_episodes' = << >>)
    /\ (pc = "ep_page" /\ pc' = "ep_page") =>
          (disk' = disk /\ ep_offset' = ep_offset + EpLimit)
    /\ (calls'.episodes > calls.episodes) =>
          (pc = "ep_page" /\ Len(all_episodes) = ep_offset)
    /\ (calls'.page > calls.page) =>
          /\ pc \in {"coll_first", "coll_loop"}
          /\ ~Get(disk, "PagedCollection", CollKey(me.id, offset)).some
          /\ pc' # "failed" =>
                /\ pc' = "write_open"
                /\ wkey' = CollKey(me.id, offset)
                /\ wdata' = resp'.body
    /\ \A o \in PageOffsets(world.total) :
          (/\ Get(disk, "PagedCollection", CollKey(Me.id, o)).some
           /\ ~(pc \in Stopped /\ args'.no_cache)) =>
              Get(disk', "PagedCollection", CollKey(Me.id, o)) =
                  Get(disk, "PagedCollection", CollKey(Me.id, o))

\* C18. Resume granularity: fetch_all_episodes keeps the pages in memory and
\* writes uid/episodes/id once, after the last page, so whenever it finds no
\* file it starts again at offset 0; fetch_collections writes each page under
\* uid/collections/offset as soon as it has it, a stored page is never
\* rewritten or requested again, and so a later run requests only the offsets
\* that are not stored.
C18_ResumeGranularity == [] C18_State /\ [][C18_Step]_vars

\* A resumed run (the subject detail came from the cache) holds the first
\* episode page again, requested from offset 0, with nothing stored yet.
C18_Witness ==
    /\ pc = "ep_page" /\ ~cold /\ torn = {}
    /\ calls.subject = 0 /\ calls.episodes = 1
    /\ ep_offset = EpLimit /\ Len(all_episodes) = EpLimit
    /\ ~Has(disk, EpisodesKey(me.id, Sid))

\* The step is the start of a run with --no-cache: cache.clear().
ClearStep == pc \in Stopped /\ args'.no_cache

\* The file holds a complete value.
Present(d, p) == p \in DOMAIN d /\ d[p].kind = "json"

\* The step is a call of cache.set or cache.set_empty.
SetBegins == pc' = "write_open" /\ pc # "write_open"

C19_EveryKeyStep ==
    \A p \in DOMAIN disk :
        (/\ disk[p].kind \in {"empty", "json"}
         /\ ~(pc = "write_data" /\ Path(wkey) = p)
         /\ ~ClearStep) =>
            (p \in DOMAIN disk' /\ disk'[p] = disk[p])

\* C19 as stated: for every cache key, a file that is Empty or Present (and
\* is not in the middle of its own write) is never removed and never written
\* again, except by a whole-store clear().
C19_EveryKey == [][C19_EveryKeyStep]_vars

C19_Step ==
    /\ ~ClearStep => DOMAIN disk \subseteq DOMAIN disk'
    /\ \A p \in DOMAIN disk :
          (Present(disk, p) /\ p # Path(DoneKey(Me.id)) /\ ~ClearStep) =>
              disk'[p] = disk[p]
    /\ (SetBegins /\ wkey' # DoneKey(Me.id)) =>
          /\ ~Present(disk, Path(wkey'))
          /\ IsMarkerPath(Path(wkey')) => ~Has(disk, wkey')
    /\ (SetBegins /\ wkey' = DoneKey(Me.id)) =>
          (pc = "build" /\ IsPrefix(Checkpoint(disk), wdata'.val))
    /\ ((calls'.page > calls.page \/ calls'.subject > calls.subject
           \/ calls'.progress > calls.progress) /\ pc' # "failed") => SetBegins

\* C19, amended. No file is ever removed except by clear(). Every key other
\* than uid/done_records is written once per fetch, by the set or set_empty
\* call that follows the fetch, and once it holds a complete value it is never
\* written again until clear(): set is called only on a key that holds no
\* complete value, and for uid/episodes/id and uid/progress/id only when there
\* is no file at all. uid/done_records is rewritten after every item with a
\* list that extends the stored one.
C19_Transitions == [][C19_Step]_vars

\* The second checkpoint write begins while done_records holds the first.
C19_Witness ==
    /\ pc = "write_open" /\ wkey = DoneKey(Me.id)
    /\ Present(disk, Path(wkey)) /\ Len(Checkpoint(disk)) = 1
    /\ Len(wdata.val) = 2
    /\ Present(disk, Path(SubjectKey(Me.id, 102)))

\* The integer ordinals (e.sort as u64) of the watched main episodes.
WatchedOrdinals(p) == {p.all_episodes[k].sort2 \div 2 : k \in WatchedMainOf(p)}

\* C20. Watched count is a set size: the numerator w of the completeness
\* fraction "w/M" is the number of distinct ordinals of watched main episodes,
\* which is the number of episode numbers the watched_eps string denotes, also
\* when two main episodes have the same integer ordinal.
C20_WatchedIsSetSize ==
    pure.done =>
        LET W == WatchedOrdinals(pure)
        IN  /\ pure.rec.watched_eps = Segments(W, Ascending(RunStarts(W)))
            /\ pure.rec.completeness =
                  ToString(Cardinality(W)) \o "/" \o ToString(Cardinality(MainOf(pure)))

\* The episode-page requests one uncached subject costs: the loop of
\* fetch_all_episodes asks at least once.
EpPagesOf(w, sid) == Max(1, CeilDiv(Len(EpisodesOf(w, sid)), EpLimit))

RECURSIVE EpPagesUpTo(_, _)
EpPagesUpTo(w, n) ==
    IF n = 0 THEN 0 ELSE EpPagesUpTo(w, n - 1) + EpPagesOf(w, SubjectId(n))

\* C21. Force-clear fetches everything fresh: a run started with --no-cache
\* begins with an empty store; once fetch_collections has returned it has
\* requested every collection page; in detail mode the aggregation starts at
\* index 0 and, when the run completes, it has requested the subject detail,
\* every episode page and the progress of every item and returns what an
\* uninterrupted run from an empty cache returns; and every value it fetched
\* is stored, so that the store then holds all pages, details, episode lists,
\* progress entries and the full checkpoint.
C21_ForceClear ==
    args.no_cache =>
        /\ cold
        /\ pc \in Running \cup {"done", "failed"} => torn = {}
        /\ pc \in {"simple", "detail_load"} =>
              /\ calls.page = Cardinality(PageOffsets(world.total))
              /\ \A o \in PageOffsets(world.total) :
                    Present(disk, Path(CollKey(me.id, o)))
        /\ pc \in InItem \cup {"export"} => (start_index = 0 /\ calls.subject >= i)
        /\ (pc = "done" /\ args.detail) =>
              /\ calls.subject = world.total
              /\ calls.progress = world.total
              /\ calls.episodes = EpPagesUpTo(world, world.total)
              /\ out = FreshOutput(world)
              /\ Checkpoint(disk) = out
              /\ \A j \in 1 .. world.total :
                    /\ Present(disk, Path(SubjectKey(me.id, SubjectId(j))))
                    /\ Has(disk, EpisodesKey(me.id, SubjectId(j)))
                    /\ Has(disk, ProgressKey(me.id, SubjectId(j)))
                    /\ UnwrapOrDefault(Get(disk, "Vec<Episode>", EpisodesKey(me.id, SubjectId(j))))
                          = EpisodesOf(world, SubjectId(j))
                    /\ Get(disk, "UserProgress", ProgressKey(me.id, SubjectId(j)))
                          = GetProgress(ProgressAnswer(world, SubjectId(j))).val

\* A detailed run with --no-cache over two items has completed.
C21_Witness ==
    /\ pc = "done" /\ args.no_cache /\ args.detail
    /\ world.total = 2 /\ Len(out) = 2
    /\ calls.page = 1 /\ calls.subject = 2 /\ calls.progress = 2 /\ calls.episodes >= 3

\* The items of the pages at the offsets below the first page's total, in
\* order, as the remote holds them.
RECURSIVE PagesUpTo(_, _)
PagesUpTo(w, n) ==
    IF n = 0 THEN << >>
    ELSE PagesUpTo(w, n - 1)
         \o GetJson("PagedCollection",
                    CollectionsAnswer(w, CollLimit, (n - 1) * CollLimit)).val.data

C22_State ==
    /\ pc \in {"coll_loop", "coll_next_use", "simple"} =>
          /\ total = world.total
          /\ offset % CollLimit = 0 /\ offset >= CollLimit
          /\ offset - CollLimit <= Max(total - 1, 0)
          /\ offset > CollLimit => offset - CollLimit < total
          /\ torn = {} => collections = PagesUpTo(world, offset \div CollLimit)
    /\ pc = "coll_next_use" => (page.some /\ page.val.offset = offset /\ offset < total)
    /\ pc = "simple" =>
          /\ offset >= total
          /\ offset = CollLimit * Cardinality(PageOffsets(total))
          /\ calls.page <= Cardinality(PageOffsets(total))
          /\ total = 0 => (collections = << >> /\ offset = CollLimit /\ calls.page <= 1)

C22_Step ==
    (pc \in Running /\ pc' \in Running) =>
        /\ offset' \in {offset, offset + CollLimit}
        /\ pc \notin {"coll_first", "coll_first_use"} => total' = total
        /\ (calls'.page > calls.page /\ resp'.sent /\ resp'.status = 200
              /\ resp'.body.kind = "json") =>
              /\ resp'.body.val.offset = offset /\ resp'.body.val.limit = CollLimit
              /\ pc = "coll_loop" => offset < total
        /\ pc = "simple" => calls' = calls

\* C22. Collection cursor: fetch_collections takes the total from the page at
\* offset 0 and never changes it, reads or requests the pages at offsets
\* 0, L, 2L, ... one after the other while offset < total, adds L to the
\* offset after each page whatever the page held or reported, returns the
\* items of exactly those pages as soon as offset >= total, and with total = 0
\* takes the first page only and returns the empty list.
C22_Cursor == [] C22_State /\ [][C22_Step]_vars

\* Three pages were requested from a remote whose pages are one item short:
\* the cursor ends at 3 L with fewer than total items.
C22_Witness ==
    /\ pc = "simple" /\ world.drift = "short" /\ world.total = 2 * CollLimit + 1
    /\ offset = 3 * CollLimit /\ calls.page = 3
    /\ Len(collections) = 2 * (CollLimit - 1)

\* The step is cache.clear().
CacheCleared == \A k \in CacheKeys : last'.op[k].kind = "none"

C23_Step ==
    \A k2 \in CacheKeys :
        (last' # last /\ ~CacheCleared /\ last'.op[k2] = last.op[k2]) =>
            /\ Has(disk', k2) = Has(disk, k2)
            /\ \A ty \in CacheTypes : Get(disk', ty, k2) = Get(disk, ty, k2)

\* C23. Key isolation: set(k1, v) and set_empty(k1) leave has(k2) and get(k2)
\* as they were for every key k2 other than k1, for all keys whose segments
\* hold no '/'.
C23_KeyIsolation == [][C23_Step]_vars

\* The number of records stored at uid/done_records is, whenever no write is
\* half way, at least every number stored there since the last clear().
C24_CountKept ==
    pc # "write_data" => \A c \in cps : Len(Checkpoint(disk)) >= Len(c)

\* A resumed run works on no item below the checkpoint length it found.
C24_NoRework ==
    (args.detail /\ pc \in InItem) =>
        /\ i >= start_index
        /\ Len(records) >= start_index
        /\ pc # "loop_next" => Len(records) = i

\* C24. Checkpoint monotonicity: across detailed runs, interruptions and
\* resumes without clear(), the number of records stored at uid/done_records
\* never decreases, and a resumed run neither requests nor rebuilds an item
\* whose index is below the checkpoint length found at its start.
C24_CheckpointMonotone == C24_CountKept /\ C24_NoRework

\* C25. Watched never exceeds main: for every episode list and every progress
\* value (entries for ids not in the list, for non-main episodes, or repeated
\* included), the watched count w of build_detail_record satisfies
\* 0 <= w <= M, and when M > 0 the percentage lies between 0% and 100%.
C25_WatchedWithinMain ==
    (pure.f = "build_detail_record" /\ pure.done) =>
        LET M == Cardinality(MainOf(pure))
        IN  /\ \E w \in 0 .. M :
                   pure.rec.completeness = ToString(w) \o "/" \o ToString(M)
            /\ M > 0 =>
                   \E n \in 0 .. 100 : pure.rec.completeness_pct = ToString(n) \o "%"

\* All three main episodes watched, with progress entries for a special
\* episode, for an id that is not in the list, and for episode 1 twice.
C25_Witness ==
    /\ pure.f = "build_detail_record" /\ pure.done
    /\ pure.progress.some
    /\ \E k \in 1 .. Len(pure.progress.val.eps) :
           /\ pure.progress.val.eps[k].status = 2
           /\ \A j \in 1 .. Len(pure.all_episodes) :
                  pure.all_episodes[j].id # pure.progress.val.eps[k].id
    /\ \E j, k \in 1 .. Len(pure.progress.val.eps) :
           j # k /\ pure.progress.val.eps[j] = pure.progress.val.eps[k]
    /\ \E j \in 1 .. Len(pure.all_episodes) :
           /\ pure.all_episodes[j].episode_type # 0
           /\ pure.all_episodes[j].id \in WatchedIds(pure)
    /\ pure.rec.completeness = "3/3"
    /\ pure.rec.completeness_pct = "100%"

\* No increment of the two calls is evaluated at the largest value.
C26_State ==
    pure.f = "run_length_encode" =>
        /\ ~Overflows(pure.xs) /\ ~Overflows(pure.ys)
        /\ pure.done => ~pure.panic

\* The call returns, and without a panic.
C26_Step ==
    (pure.f = "run_length_encode" /\ ~pure.done) => (pure'.done /\ ~pure'.panic)

\* C26. No overflow in run-length encoding: for every input list, the ones
\* holding the largest value of the type included, end + 1 is only evaluated
\* with end below that value, so run_length_encode never overflows and always
\* returns.
C26_NoOverflow == [] C26_State /\ [][C26_Step]_vars

\* The largest value twice, after its predecessor: one run that ends at it.
C26_Witness ==
    /\ pure.f = "run_length_encode" /\ pure.done
    /\ pure.xs = << U64Max, U64Max - 1, U64Max >>
    /\ pure.rx = ToString(U64Max - 1) \o "-" \o ToString(U64Max)
    /\ ~pure.panic

=============================================================================
